---- MODULE Spec2Model ----
(***************************************************************************)
(* The SSO authentication service: the gRPC adapter (serverAPI), the auth  *)
(* engine (Auth.Login, Auth.RegisterNewUser, Auth.IsAdmin) and the MongoDB *)
(* storage (SaveUser, UserByEmail, IsAdmin, App).                          *)
(*                                                                         *)
(* Every handler touches the shared store at most once (one InsertOne or   *)
(* one FindOne on "users"; "apps" is never written), so Spec takes each    *)
(* handler as one step.  SpecConc splits Register at its only blocking     *)
(* boundary, between hashing the password and the InsertOne, so that       *)
(* several registrations are in flight at once.                            *)
(***************************************************************************)
EXTENDS Integers, Sequences, FiniteSets, TLC

VARIABLES
    users,      \* collection "users": records [id, email, passHash, isAdmin]
    apps,       \* collection "apps": records [id, name, secret]
    nextID,     \* the ObjectID the store assigns to the next inserted document
    inflight,   \* registrations whose password is hashed and whose insert is pending
    last,       \* the most recently completed call: request, store calls made, reply
    returned,   \* [email, id] of every registration that returned an identifier
    seen        \* what callers observed of Login for unknown emails / wrong passwords

vars == <<users, apps, nextID, inflight, last, returned, seen>>

----------------------------------------------------------------------------
(* Bounds and input domains *)

NumSalts == 2
MaxInflight == 2

Salts == 1..NumSalts
Emails == {"", "a@x.com", "b@x.com"}
Passwords == {"", "secret1", "other"}
ConcPasswords == {"", "secret1"}
AppIDs == {0, 42, 99}
UserIDs == 0..3

LoginFaults == {"none", "users", "apps", "signer"}
RegisterFaults == {"none", "hasher", "users"}
HashFaults == {"none", "hasher"}
SaveFaults == {"none", "users"}
IsAdminFaults == {"none", "users"}

----------------------------------------------------------------------------
(* Values *)

NilObjectID == 0
emptyValue == 0

NoToken == <<>>
NoHash == [salt |-> 0, digest |-> <<>>]
NoUser == [id |-> NilObjectID, email |-> "", passHash |-> NoHash, isAdmin |-> FALSE]
NoApp == [id |-> 0, name |-> "", secret |-> ""]

\* ObjectID.Hex: 24 hexadecimal digits
Hex(id) == "00000000000000000000000" \o
           (CASE id = 0 -> "0" [] id = 1 -> "1" [] id = 2 -> "2" [] id = 3 -> "3"
              [] OTHER -> "f")

UserIdStrings == {Hex(i) : i \in UserIDs} \cup {"zz"}

\* primitive.ObjectIDFromHex
ObjectIDFromHex(s) ==
    IF \E i \in UserIDs : Hex(i) = s
    THEN [id |-> CHOOSE i \in UserIDs : Hex(i) = s, err |-> "nil"]
    ELSE [id |-> NilObjectID, err |-> "ErrInvalidHex"]

----------------------------------------------------------------------------
(* bcrypt *)

Digest(password, salt) == <<"bcrypt", salt, password>>

\* bcrypt.GenerateFromPassword: a fresh salt, embedded in the hash
GenerateFromPassword(password, salt, fault) ==
    IF fault = "hasher"
    THEN [hash |-> NoHash, err |-> "ErrHash"]
    ELSE [hash |-> [salt |-> salt, digest |-> Digest(password, salt)], err |-> "nil"]

\* bcrypt.CompareHashAndPassword: rehash with the salt the hash embeds
CompareHashAndPassword(hash, password) ==
    IF hash.digest = Digest(password, hash.salt)
    THEN "nil" ELSE "ErrMismatchedHashAndPassword"

----------------------------------------------------------------------------
(* Storage (MongoDB) *)

\* SaveUser as an upsert: a duplicate email overwrites the stored hash
SaveUserUpsert(store, next, email, passHash, fault) ==
    IF fault = "users"
    THEN [id |-> NilObjectID, err |-> "ErrStore", store |-> store, next |-> next]
    ELSE IF \E u \in store : u.email = email
    THEN LET old == CHOOSE u \in store : u.email = email IN
         [id |-> old.id, err |-> "nil",
          store |-> (store \ {old}) \cup {[old EXCEPT !.passHash = passHash]},
          next |-> next]
    ELSE [id |-> next, err |-> "nil",
          store |-> store \cup {[id |-> next, email |-> email,
                                 passHash |-> passHash, isAdmin |-> FALSE]},
          next |-> next + 1]

\* SaveUser on a collection without the unique index on email
SaveUserNoIndex(store, next, email, passHash, fault) ==
    IF fault = "users"
    THEN [id |-> NilObjectID, err |-> "ErrStore", store |-> store, next |-> next]
    ELSE [id |-> next, err |-> "nil",
          store |-> store \cup {[id |-> next, email |-> email,
                                 passHash |-> passHash, isAdmin |-> FALSE]},
          next |-> next + 1]

\* Storage.SaveUser: InsertOne; the server rejects a duplicate email (write
\* error 11000) without inserting; any other error is passed on
SaveUser(store, next, email, passHash, fault) ==
    IF fault = "users"
    THEN [id |-> NilObjectID, err |-> "ErrStore", store |-> store, next |-> next]
    ELSE IF \E u \in store : u.email = email
    THEN [id |-> NilObjectID, err |-> "ErrUserExists", store |-> store, next |-> next]
    ELSE [id |-> next, err |-> "nil",
          store |-> store \cup {[id |-> next, email |-> email,
                                 passHash |-> passHash, isAdmin |-> FALSE]},
          next |-> next + 1]

\* Storage.UserByEmail: FindOne by email
UserByEmail(store, email, fault) ==
    IF fault = "users"
    THEN [user |-> NoUser, err |-> "ErrStore"]
    ELSE IF \E u \in store : u.email = email
    THEN [user |-> CHOOSE u \in store : u.email = email, err |-> "nil"]
    ELSE [user |-> NoUser, err |-> "ErrUserNotFound"]

\* Storage.IsAdmin: FindOne by _id
StorageIsAdmin(store, userID, fault) ==
    IF fault = "users"
    THEN [isAdmin |-> FALSE, err |-> "ErrStore"]
    ELSE IF \E u \in store : u.id = userID
    THEN [isAdmin |-> (CHOOSE u \in store : u.id = userID).isAdmin, err |-> "nil"]
    ELSE [isAdmin |-> FALSE, err |-> "ErrUserNotFound"]

\* Storage.App: FindOne by id
App(registry, appID, fault) ==
    IF fault = "apps"
    THEN [app |-> NoApp, err |-> "ErrStore"]
    ELSE IF \E a \in registry : a.id = appID
    THEN [app |-> CHOOSE a \in registry : a.id = appID, err |-> "nil"]
    ELSE [app |-> NoApp, err |-> "ErrAppNotFound"]

----------------------------------------------------------------------------
(* Token issuer *)

\* jwt.NewToken: the claims (subject, audience) signed with the app's secret
NewToken(user, app, fault) ==
    IF fault = "signer"
    THEN [token |-> NoToken, err |-> "ErrSign"]
    ELSE [token |-> <<user.id, user.email, app.id, app.secret>>, err |-> "nil"]

----------------------------------------------------------------------------
(* Auth engine *)

\* Login that passes the store's not-found error on
AuthLoginLeaky(store, registry, email, password, appID, fault) ==
    LET r == UserByEmail(store, email, fault) IN
    IF r.err # "nil"
    THEN [token |-> NoToken, err |-> r.err, calls |-> <<"UserByEmail">>]
    ELSE IF CompareHashAndPassword(r.user.passHash, password) # "nil"
    THEN [token |-> NoToken, err |-> "ErrInvalidCredentials",
          calls |-> <<"UserByEmail">>]
    ELSE LET a == App(registry, appID, fault) IN
         IF a.err # "nil"
         THEN [token |-> NoToken, err |-> a.err, calls |-> <<"UserByEmail", "App">>]
         ELSE LET t == NewToken(r.user, a.app, fault) IN
              [token |-> t.token, err |-> t.err, calls |-> <<"UserByEmail", "App">>]

\* Login that does not compare the password with the stored hash
AuthLoginNoCompare(store, registry, email, password, appID, fault) ==
    LET r == UserByEmail(store, email, fault) IN
    IF r.err # "nil"
    THEN IF r.err = "ErrUserNotFound"
         THEN [token |-> NoToken, err |-> "ErrInvalidCredentials",
               calls |-> <<"UserByEmail">>]
         ELSE [token |-> NoToken, err |-> r.err, calls |-> <<"UserByEmail">>]
    ELSE LET a == App(registry, appID, fault) IN
         IF a.err # "nil"
         THEN [token |-> NoToken, err |-> a.err, calls |-> <<"UserByEmail", "App">>]
         ELSE LET t == NewToken(r.user, a.app, fault) IN
              [token |-> t.token, err |-> t.err, calls |-> <<"UserByEmail", "App">>]

\* Login that resolves the app before it checks the credentials
AuthLoginAppFirst(store, registry, email, password, appID, fault) ==
    LET a == App(registry, appID, fault) IN
    IF a.err # "nil"
    THEN [token |-> NoToken, err |-> a.err, calls |-> <<"App">>]
    ELSE LET r == UserByEmail(store, email, fault) IN
         IF r.err # "nil"
         THEN IF r.err = "ErrUserNotFound"
              THEN [token |-> NoToken, err |-> "ErrInvalidCredentials",
                    calls |-> <<"App", "UserByEmail">>]
              ELSE [token |-> NoToken, err |-> r.err,
                    calls |-> <<"App", "UserByEmail">>]
         ELSE IF CompareHashAndPassword(r.user.passHash, password) # "nil"
         THEN [token |-> NoToken, err |-> "ErrInvalidCredentials",
               calls |-> <<"App", "UserByEmail">>]
         ELSE LET t == NewToken(r.user, a.app, fault) IN
              [token |-> t.token, err |-> t.err, calls |-> <<"App", "UserByEmail">>]

\* Auth.Login
AuthLogin(store, registry, email, password, appID, fault) ==
    LET r == UserByEmail(store, email, fault) IN
    IF r.err # "nil"
    THEN IF r.err = "ErrUserNotFound"
         THEN [token |-> NoToken, err |-> "ErrInvalidCredentials",
               calls |-> <<"UserByEmail">>]
         ELSE [token |-> NoToken, err |-> r.err, calls |-> <<"UserByEmail">>]
    ELSE IF CompareHashAndPassword(r.user.passHash, password) # "nil"
    THEN [token |-> NoToken, err |-> "ErrInvalidCredentials",
          calls |-> <<"UserByEmail">>]
    ELSE LET a == App(registry, appID, fault) IN
         IF a.err # "nil"
         THEN [token |-> NoToken, err |-> a.err, calls |-> <<"UserByEmail", "App">>]
         ELSE LET t == NewToken(r.user, a.app, fault) IN
              IF t.err # "nil"
              THEN [token |-> NoToken, err |-> t.err,
                    calls |-> <<"UserByEmail", "App">>]
              ELSE [token |-> t.token, err |-> "nil",
                    calls |-> <<"UserByEmail", "App">>]

\* Auth.RegisterNewUser, from the SaveUser call on
RegisterSave(store, next, email, passHash, fault) ==
    LET r == SaveUser(store, next, email, passHash, fault) IN
    IF r.err # "nil"
    THEN [id |-> NilObjectID, err |-> r.err, calls |-> <<"SaveUser">>,
          store |-> r.store, next |-> r.next]
    ELSE [id |-> r.id, err |-> "nil", calls |-> <<"SaveUser">>,
          store |-> r.store, next |-> r.next]

\* RegisterNewUser that hands the password itself to SaveUser, not its hash
AuthRegisterNewUserPlain(store, next, email, pass, salt, fault) ==
    LET h == GenerateFromPassword(pass, salt, fault) IN
    IF h.err # "nil"
    THEN [id |-> NilObjectID, err |-> h.err, calls |-> <<>>,
          store |-> store, next |-> next]
    ELSE RegisterSave(store, next, email, [salt |-> 0, digest |-> <<pass>>], fault)

\* Auth.RegisterNewUser
AuthRegisterNewUser(store, next, email, pass, salt, fault) ==
    LET h == GenerateFromPassword(pass, salt, fault) IN
    IF h.err # "nil"
    THEN [id |-> NilObjectID, err |-> h.err, calls |-> <<>>,
          store |-> store, next |-> next]
    ELSE RegisterSave(store, next, email, h.hash, fault)

\* Auth.IsAdmin
AuthIsAdmin(store, userID, fault) ==
    LET r == StorageIsAdmin(store, userID, fault) IN
    IF r.err # "nil"
    THEN [isAdmin |-> FALSE, err |-> "ErrInvalidAppID", calls |-> <<"IsAdmin">>]
    ELSE [isAdmin |-> r.isAdmin, err |-> "nil", calls |-> <<"IsAdmin">>]

----------------------------------------------------------------------------
(* gRPC adapter *)

\* status.Error(code, msg); a reply without error has code OK
Status(code, msg) == [code |-> code, msg |-> msg]

\* serverAPI.Login
ServerLogin(store, registry, email, password, appID, fault) ==
    IF email = ""
    THEN [token |-> NoToken, err |-> "-", calls |-> <<>>,
          status |-> Status("InvalidArgument", "email is required")]
    ELSE IF password = ""
    THEN [token |-> NoToken, err |-> "-", calls |-> <<>>,
          status |-> Status("InvalidArgument", "password is required")]
    ELSE IF appID = emptyValue
    THEN [token |-> NoToken, err |-> "-", calls |-> <<>>,
          status |-> Status("InvalidArgument", "app_id is required")]
    ELSE LET r == AuthLogin(store, registry, email, password, appID, fault) IN
         IF r.err # "nil"
         THEN IF r.err = "ErrInvalidCredentials"
              THEN [token |-> NoToken, err |-> r.err, calls |-> r.calls,
                    status |-> Status("InvalidArgument", "invalid argument")]
              ELSE [token |-> NoToken, err |-> r.err, calls |-> r.calls,
                    status |-> Status("Internal", "internal error")]
         ELSE [token |-> r.token, err |-> "nil", calls |-> r.calls,
               status |-> Status("OK", "")]

\* serverAPI.Register: the checks made before the engine is called
RegisterInvalid(email, password) ==
    IF email = "" THEN "email is required"
    ELSE IF password = "" THEN "password is required"
    ELSE ""

\* serverAPI.Register: the reply for the engine's result
RegisterReply(err) ==
    IF err # "nil"
    THEN IF err = "ErrUserExists"
         THEN Status("AlreadyExists", "user already exists")
         ELSE Status("Internal", "internal error")
    ELSE Status("OK", "")

\* serverAPI.Register
ServerRegister(store, next, email, password, salt, fault) ==
    IF RegisterInvalid(email, password) # ""
    THEN [id |-> NilObjectID, userId |-> "", err |-> "-", calls |-> <<>>,
          store |-> store, next |-> next,
          status |-> Status("InvalidArgument", RegisterInvalid(email, password))]
    ELSE LET r == AuthRegisterNewUser(store, next, email, password, salt, fault) IN
         [id |-> r.id, userId |-> IF r.err = "nil" THEN Hex(r.id) ELSE "",
          err |-> r.err, calls |-> r.calls,
          store |-> r.store, next |-> r.next, status |-> RegisterReply(r.err)]

\* serverAPI.IsAdmin
ServerIsAdmin(store, userId, fault) ==
    IF userId = Hex(NilObjectID)
    THEN [isAdmin |-> FALSE, err |-> "-", calls |-> <<>>, id |-> NilObjectID,
          status |-> Status("InvalidArgument", "user_id is required")]
    ELSE LET p == ObjectIDFromHex(userId) IN
         IF p.err # "nil"
         THEN [isAdmin |-> FALSE, err |-> "-", calls |-> <<>>, id |-> NilObjectID,
               status |-> Status("InvalidArgument", "invalid user_id")]
         ELSE LET r == AuthIsAdmin(store, p.id, fault) IN
              IF r.err # "nil"
              THEN [isAdmin |-> FALSE, err |-> r.err, calls |-> r.calls, id |-> p.id,
                    status |-> Status("Internal", "internal error")]
              ELSE [isAdmin |-> r.isAdmin, err |-> "nil", calls |-> r.calls,
                    id |-> p.id, status |-> Status("OK", "")]

----------------------------------------------------------------------------
(* State *)

\* The app registry, managed outside the service
Registry == {[id |-> 42, name |-> "shop", secret |-> "s42"],
             [id |-> 7, name |-> "blog", secret |-> "s7"]}

\* A store may come with an administrator, flagged outside the service
SeedUsers == {[id |-> 1, email |-> "b@x.com",
               passHash |-> [salt |-> 1, digest |-> Digest("other", 1)],
               isAdmin |-> TRUE]}

NoCall == [op |-> "none", via |-> "-", email |-> "", password |-> "", appID |-> 0,
           userId |-> "", userID |-> NilObjectID, fault |-> "none", free |-> FALSE,
           calls |-> <<>>, token |-> NoToken, id |-> NilObjectID, isAdmin |-> FALSE,
           err |-> "-", status |-> Status("-", "")]

Init ==
    /\ users \in {{}, SeedUsers}
    /\ apps = Registry
    /\ nextID = Cardinality(users) + 1
    /\ inflight = {}
    /\ last = NoCall
    /\ returned = {}
    /\ seen = {}

\* How a Login request stands to the stored credentials
LoginClass(store, email, password) ==
    IF ~ \E u \in store : u.email = email THEN "unregistered"
    ELSE IF \E u \in store : /\ u.email = email
                             /\ u.passHash.digest = Digest(password, u.passHash.salt)
    THEN "match"
    ELSE "wrongpw"

\* What the caller of Login call c, made against store, got to see; kept for
\* requests that reached the engine with healthy collaborators and with
\* credentials that do not match
Observed(store, c) ==
    IF /\ c.op = "Login" /\ c.err # "-" /\ c.fault = "none"
       /\ LoginClass(store, c.email, c.password) \in {"unregistered", "wrongpw"}
    THEN {[via |-> c.via, class |-> LoginClass(store, c.email, c.password),
           err |-> c.err, token |-> c.token, status |-> c.status]}
    ELSE {}

----------------------------------------------------------------------------
(* Actions *)

\* A Login request that, once the password verified, stores a hash of it
\* under another salt
LoginRPCRehash(email, password, appID, fault) ==
    LET r == ServerLogin(users, apps, email, password, appID, fault) IN
    /\ last' = [NoCall EXCEPT !.op = "Login", !.via = "grpc", !.email = email,
                    !.password = password, !.appID = appID, !.fault = fault,
                    !.calls = r.calls, !.token = r.token, !.err = r.err,
                    !.status = r.status]
    /\ users' = IF r.err = "nil"
                THEN {IF u.email = email
                      THEN [u EXCEPT !.passHash =
                               [salt |-> u.passHash.salt + 1,
                                digest |-> Digest(password, u.passHash.salt + 1)]]
                      ELSE u : u \in users}
                ELSE users
    /\ UNCHANGED <<apps, nextID, inflight, returned>>

\* A Login request served by the gRPC adapter
LoginRPC(email, password, appID, fault) ==
    LET r == ServerLogin(users, apps, email, password, appID, fault) IN
    /\ last' = [NoCall EXCEPT !.op = "Login", !.via = "grpc", !.email = email,
                    !.password = password, !.appID = appID, !.fault = fault,
                    !.calls = r.calls, !.token = r.token, !.err = r.err,
                    !.status = r.status]
    /\ UNCHANGED <<users, apps, nextID, inflight, returned>>

\* Auth.Login called directly, without the adapter
LoginCall(email, password, appID, fault) ==
    LET r == AuthLogin(users, apps, email, password, appID, fault) IN
    /\ last' = [NoCall EXCEPT !.op = "Login", !.via = "direct", !.email = email,
                    !.password = password, !.appID = appID, !.fault = fault,
                    !.calls = r.calls, !.token = r.token, !.err = r.err]
    /\ UNCHANGED <<users, apps, nextID, inflight, returned>>

\* A Register request served by the gRPC adapter, from request to reply
RegisterRPC(email, password, salt, fault) ==
    LET r == ServerRegister(users, nextID, email, password, salt, fault) IN
    /\ users' = r.store
    /\ nextID' = r.next
    /\ last' = [NoCall EXCEPT !.op = "Register", !.via = "grpc", !.email = email,
                    !.password = password, !.fault = fault,
                    !.free = ~ \E u \in users : u.email = email,
                    !.calls = r.calls, !.id = r.id, !.userId = r.userId,
                    !.err = r.err, !.status = r.status]
    /\ returned' = IF r.err = "nil"
                   THEN returned \cup {[email |-> email, id |-> r.id]}
                   ELSE returned
    /\ UNCHANGED <<apps, inflight>>

\* An IsAdmin request served by the gRPC adapter
IsAdminRPC(userId, fault) ==
    LET r == ServerIsAdmin(users, userId, fault) IN
    /\ last' = [NoCall EXCEPT !.op = "IsAdmin", !.via = "grpc", !.userId = userId,
                    !.userID = r.id, !.fault = fault, !.calls = r.calls,
                    !.isAdmin = r.isAdmin, !.err = r.err, !.status = r.status]
    /\ UNCHANGED <<users, apps, nextID, inflight, returned>>

\* Auth.IsAdmin called directly, without the adapter
IsAdminCall(userID, fault) ==
    LET r == AuthIsAdmin(users, userID, fault) IN
    /\ last' = [NoCall EXCEPT !.op = "IsAdmin", !.via = "direct", !.userID = userID,
                    !.fault = fault, !.calls = r.calls, !.isAdmin = r.isAdmin,
                    !.err = r.err]
    /\ UNCHANGED <<users, apps, nextID, inflight, returned>>

\* Register, first half: the adapter's checks and the password hash; the
\* request then waits for its InsertOne
RegisterBegin(email, password, salt, fault) ==
    LET bad == RegisterInvalid(email, password)
        h == GenerateFromPassword(password, salt, fault)
        call == [NoCall EXCEPT !.op = "Register", !.via = "grpc", !.email = email,
                     !.password = password, !.fault = fault,
                     !.free = ~ \E u \in users : u.email = email]
    IN
    /\ Cardinality(inflight) < MaxInflight
    /\ IF bad # ""
       THEN /\ last' = [call EXCEPT !.status = Status("InvalidArgument", bad)]
            /\ UNCHANGED inflight
       ELSE IF h.err # "nil"
       THEN /\ last' = [call EXCEPT !.err = h.err, !.status = RegisterReply(h.err)]
            /\ UNCHANGED inflight
       ELSE /\ inflight' = inflight \cup {[call |-> call, passHash |-> h.hash]}
            /\ UNCHANGED last
    /\ UNCHANGED <<users, apps, nextID, returned>>

\* Register, second half: the InsertOne and the reply
RegisterEnd(c, fault) ==
    LET r == RegisterSave(users, nextID, c.call.email, c.passHash, fault) IN
    /\ c \in inflight
    /\ inflight' = inflight \ {c}
    /\ users' = r.store
    /\ nextID' = r.next
    /\ last' = [c.call EXCEPT !.fault = fault, !.calls = r.calls, !.id = r.id,
                    !.userId = IF r.err = "nil" THEN Hex(r.id) ELSE "",
                    !.err = r.err, !.status = RegisterReply(r.err)]
    /\ returned' = IF r.err = "nil"
                   THEN returned \cup {[email |-> c.call.email, id |-> r.id]}
                   ELSE returned
    /\ UNCHANGED apps

\* The service, one request at a time
Next ==
    \/ \E e \in Emails, p \in Passwords, a \in AppIDs, f \in LoginFaults :
          LoginRPC(e, p, a, f) /\ UNCHANGED seen
    \/ \E e \in Emails, p \in Passwords, a \in AppIDs, f \in LoginFaults :
          LoginCall(e, p, a, f) /\ UNCHANGED seen
    \/ \E e \in Emails, p \in Passwords, s \in Salts, f \in RegisterFaults :
          RegisterRPC(e, p, s, f) /\ UNCHANGED seen
    \/ \E h \in UserIdStrings, f \in IsAdminFaults :
          IsAdminRPC(h, f) /\ UNCHANGED seen
    \/ \E i \in UserIDs, f \in IsAdminFaults :
          IsAdminCall(i, f) /\ UNCHANGED seen

Spec == Init /\ [][Next]_vars

\* Registrations and logins with healthy collaborators, with a record of what
\* the callers of Login observed
NextObs ==
    \/ \E e \in Emails, p \in Passwords, a \in AppIDs :
          LoginRPC(e, p, a, "none") /\ seen' = seen \cup Observed(users, last')
    \/ \E e \in Emails, p \in Passwords, a \in AppIDs :
          LoginCall(e, p, a, "none") /\ seen' = seen \cup Observed(users, last')
    \/ \E e \in Emails, p \in Passwords, s \in Salts :
          RegisterRPC(e, p, s, "none") /\ UNCHANGED seen

SpecObs == Init /\ [][NextObs]_vars

\* Concurrent registrations
NextConc ==
    \/ \E e \in Emails, p \in ConcPasswords, s \in Salts, f \in HashFaults :
          RegisterBegin(e, p, s, f) /\ UNCHANGED seen
    \/ \E c \in inflight, f \in SaveFaults :
          RegisterEnd(c, f) /\ UNCHANGED seen

SpecConc == Init /\ [][NextConc]_vars

----------------------------------------------------------------------------
(* Properties *)

RegistryIDs == {a.id : a \in apps}
Registered(email) == \E u \in users : u.email = email
StoredUser(email) == CHOOSE u \in users : u.email = email
Unique(store) == \A u, v \in store : (u.email = v.email \/ u.id = v.id) => u = v

\* A Login that follows at once a Register that returned an identifier, with
\* the same email and password, an app of the registry and healthy collaborators
LoginRightAfterRegister ==
    /\ last.op = "Register" /\ last.err = "nil"
    /\ last'.op = "Login" /\ last'.err # "-" /\ last'.fault = "none"
    /\ last'.email = last.email /\ last'.password = last.password
    /\ last'.appID \in RegistryIDs

\* C1: RegisterNewUser with a non-empty email that is not in the store and a
\* non-empty password returns an identifier without error (the hasher and the
\* store being healthy), and a Login made right after it with the same
\* credentials and an app of the registry returns, without error, a token whose
\* subject is that identifier and whose audience is that app.
C1_RegisterThenLogin ==
    [][ /\ ( /\ last'.op = "Register" /\ last'.err # "-"
             /\ last'.fault = "none" /\ last'.free )
           => ( /\ last'.err = "nil" /\ last'.id # NilObjectID
                /\ last'.status.code = "OK" /\ last'.userId = Hex(last'.id) )
        /\ LoginRightAfterRegister
           => ( /\ last'.err = "nil" /\ last'.token # NoToken
                /\ last'.token[1] = last.id
                /\ last'.token[3] = last'.appID
                /\ last'.via = "grpc" => last'.status.code = "OK" )
      ]_vars

\* C1 witness: a Login returned a token for a user a Register of this run
\* created, with that user as subject
C1_Witness ==
    /\ last.op = "Login" /\ last.err = "nil" /\ last.token # NoToken
    /\ [email |-> last.email, id |-> last.token[1]] \in returned
    /\ last.token[3] = last.appID

\* C2: RegisterNewUser with an email that is in the store fails with
\* ErrUserExists and the nil identifier whatever the password, and leaves the
\* store as it was (same records, same password hashes).
C2_DuplicateLeavesStore ==
    [][ ( /\ last'.op = "Register" /\ last'.err # "-" /\ last'.fault = "none"
          /\ Registered(last'.email) )
        => ( /\ last'.err = "ErrUserExists"
             /\ last'.id = NilObjectID
             /\ last'.status = Status("AlreadyExists", "user already exists")
             /\ users' = users
             /\ nextID' = nextID )
      ]_vars

\* C2 witness: a Register with another password than the stored one failed
\* with ErrUserExists, and the stored hash still verifies the original password
C2_Witness ==
    /\ last.op = "Register" /\ last.err = "ErrUserExists" /\ last.password = "other"
    /\ Registered(last.email)
    /\ CompareHashAndPassword(StoredUser(last.email).passHash, "secret1") = "nil"

\* C3: any two Login calls, one with an unregistered email and one with a
\* registered email and a wrong password, are observed alike: the engine
\* returns ErrInvalidCredentials and no token to both, and the adapter answers
\* both with the same status code and message.
C3_EnumerationResistance ==
    \A x, y \in seen :
        /\ x.err = "ErrInvalidCredentials" /\ x.token = NoToken
        /\ x.err = y.err /\ x.token = y.token
        /\ x.via = y.via => x.status = y.status

\* C3 witness: the adapter served both kinds of request
C3_Witness ==
    \E x, y \in seen :
        /\ x.via = "grpc" /\ y.via = "grpc"
        /\ x.class = "unregistered" /\ y.class = "wrongpw"

\* C4: a Login with a registered email, its password and an appID that is not
\* in the registry fails with the app-not-found kind, and the caller can tell
\* that reply from the one for invalid credentials and from the one for an
\* unexpected store failure.
C4_UnknownAppDistinct ==
    ( /\ last.op = "Login" /\ last.via = "grpc" /\ last.err # "-"
      /\ last.fault = "none"
      /\ LoginClass(users, last.email, last.password) = "match"
      /\ last.appID \notin RegistryIDs )
    => ( /\ last.err \in {"ErrAppNotFound", "ErrInvalidAppID"}
         /\ last.status # Status("InvalidArgument", "invalid argument")
         /\ last.status # ServerLogin(users, apps, last.email, last.password,
                                      last.appID, "apps").status )

\* C5: Login returns a token only if the email resolved to a stored user, the
\* password verified against that user's hash and the appID resolved to an app
\* of the registry; every other outcome is the empty token with an error.
C5_TokenOnlyIfAllResolved ==
    last.op = "Login" =>
        /\ last.token # NoToken
           => ( /\ Registered(last.email)
                /\ CompareHashAndPassword(StoredUser(last.email).passHash,
                                          last.password) = "nil"
                /\ last.appID \in RegistryIDs
                /\ last.err = "nil"
                /\ last.calls = <<"UserByEmail", "App">> )
        /\ last.token = NoToken
           => ( /\ last.err # "nil"
                /\ last.via = "grpc" => last.status.code \notin {"OK", "-"} )

\* C5 witness: a Login returned a token
C5_Witness ==
    /\ last.op = "Login" /\ last.token # NoToken /\ last.via = "grpc"

\* C6: a Login whose appID is 0 is rejected, and before any store lookup,
\* through the adapter and through the engine alike.
C6_ZeroAppRejectedBeforeLookup ==
    ( last.op = "Login" /\ last.appID = emptyValue )
    => ( /\ last.token = NoToken
         /\ last.err # "nil"
         /\ last.calls = <<>> )

\* C7: IsAdmin returns the stored flag without error for a user of the store
\* (false for a fresh one, true for an administrator), and fails with
\* ErrUserNotFound, not with the invalid-app kind, for an identifier that is
\* not in the store.
C7_IsAdminOutcomes ==
    ( last.op = "IsAdmin" /\ last.err # "-" /\ last.fault = "none" )
    => IF \E u \in users : u.id = last.userID
       THEN /\ last.err = "nil"
            /\ last.isAdmin = (CHOOSE u \in users : u.id = last.userID).isAdmin
       ELSE /\ last.err = "ErrUserNotFound"
            /\ last.isAdmin = FALSE

\* C8: with registrations in flight at once, no two user records share an
\* email; of the calls for one email at most one returns an identifier, every
\* record of the store is the seed's or a returned one, and a call that reaches
\* the store (healthy) either returns the new record's identifier or fails with
\* ErrUserExists while a record with its email exists.
C8_ConcurrentRegisterUnique ==
    /\ Unique(users)
    /\ \A r, q \in returned : r.email = q.email => r = q
    /\ \A u \in users :
          u \in SeedUsers \/ [email |-> u.email, id |-> u.id] \in returned
    /\ ( last.op = "Register" /\ last.calls # <<>> /\ last.fault = "none" )
       => \/ /\ last.err = "nil" /\ last.id # NilObjectID
             /\ [email |-> last.email, id |-> last.id] \in returned
             /\ \E u \in users : u.id = last.id /\ u.email = last.email
          \/ /\ last.err = "ErrUserExists" /\ last.id = NilObjectID
             /\ Registered(last.email)

\* C8 witness: a call that began while its email was free lost the race to
\* another call and failed with ErrUserExists
C8_Witness ==
    /\ last.op = "Register" /\ last.free /\ last.err = "ErrUserExists"
    /\ \E r \in returned : r.email = last.email

\* C9: Login and IsAdmin leave the user and app records as they are, whatever
\* the outcome; no step removes or changes a record, and only a Register that
\* returns an identifier adds one, the record with that identifier.
C9_ReadOnlyLoginIsAdmin ==
    [][ /\ last'.op \in {"Login", "IsAdmin"} => UNCHANGED <<users, apps>>
        /\ apps' = apps
        /\ users \subseteq users'
        /\ users' # users
           => ( /\ last'.op = "Register" /\ last'.err = "nil"
                /\ \E u \in users' : /\ users' = users \cup {u}
                                     /\ u.id = last'.id /\ u.email = last'.email )
      ]_vars

\* C9 witness: a call that only reads was served from a store that holds a
\* user registered in this run
C9_Witness ==
    /\ last.op \in {"Login", "IsAdmin"}
    /\ \E u \in users : [email |-> u.email, id |-> u.id] \in returned

\* C10: when the email is unregistered or the password does not match (the
\* user store being healthy), Login returns ErrInvalidCredentials without
\* consulting the app registry, whether or not the appID exists.
C10_CredentialsBeforeApp ==
    ( /\ last.op = "Login" /\ last.err # "-" /\ last.fault # "users"
      /\ LoginClass(users, last.email, last.password) \in {"unregistered", "wrongpw"} )
    => ( /\ last.err = "ErrInvalidCredentials"
         /\ last.token = NoToken
         /\ last.calls = <<"UserByEmail">> )

\* C10 witness: wrong password and unknown appID together
C10_Witness ==
    /\ last.op = "Login" /\ last.err = "ErrInvalidCredentials"
    /\ LoginClass(users, last.email, last.password) = "wrongpw"
    /\ last.appID \notin RegistryIDs /\ last.appID # emptyValue

====
